---- MODULE Spec2Model ----
(***************************************************************************)
(* Archive-first dual-source snapshot acquisition of ClimateSTANCE         *)
(* (scripts/wayback_fetch.py): the retrying HTTP primitive _get, the       *)
(* archive lookup wayback_lookup, the two body fetches fetch_archived and  *)
(* fetch_live, and the orchestration collect_dual with its selection.      *)
(*                                                                         *)
(* Representation.  A page body is represented by its character count,     *)
(* the only attribute of a body the code inspects (truthiness and len());  *)
(* Python's None is NoneBody for a body and NoneStr for a string.  One     *)
(* step of the model is one blocking point of collect_dual: one HTTP       *)
(* attempt of _get together with the code that runs until the next         *)
(* attempt, or a function that returns without touching the network.       *)
(* The remote side (archive service, live server, transport) is the        *)
(* nondeterministic choice of each attempt's outcome.                      *)
(***************************************************************************)
EXTENDS Integers, Sequences, FiniteSets, TLC

VARIABLES pc, url, date, gets, loc, out, served, calls, reqlog, escaped,
          remote, hist, batch

vars == <<pc, url, date, gets, loc, out, served, calls, reqlog, escaped,
          remote, hist, batch>>

----------------------------------------------------------------------------
(* Program constants *)

USER_AGENT == "ClimateSTANCE/1.1 (Research use; contact: saheerrahman98@gmail.com)"
HEADERS == [UserAgent |-> USER_AGENT]
MIN_GOOD_LEN == 800
tries == 3
\* backoff = 0.75 s, in hundredths of a second
backoff == 75

(* Bounds of the environment *)

\* bodies range up to MIN_GOOD_LEN + MaxOver characters
MaxOver == 1
\* a caller calls collect_dual again at most MaxAgain times
MaxAgain == 2
\* fetch_all_sites is run at most MaxRuns times over the panel
MaxRuns == 2

----------------------------------------------------------------------------
(* Values *)

NoneStr == "<None>"
NoneBody == -1

\* truthiness of an Optional[str] / of a body / of a status code
TruthyStr(s) == s /= NoneStr /\ s /= ""
TruthyBody(b) == b > 0
len(b) == IF b = NoneBody THEN 0 ELSE b

\* `x or ""` for a body and for a string
BodyOrEmpty(b) == IF TruthyBody(b) THEN b ELSE 0
StrOrEmpty(s) == IF TruthyStr(s) THEN s ELSE ""
\* str(code), without `or ""`
StatusStr_plain(code) == ToString(code)

\* str(code or "")
StatusStr(code) == IF code = 0 THEN "" ELSE ToString(code)

\* urls a caller passes: empty, with a scheme, and without one
\* (fetch_all_sites passes the panel's official_website as it is)
SchemeLess == {"rep.house.gov"}
Urls == {"", "https://rep.house.gov"} \cup SchemeLess
ARCHIVE_URL == "http://web.archive.org/web/20190115/https://rep.house.gov"
SNAPSHOT_TS == "20190115093000"

StatusCodes == {200, 404, 503}
BodyLens == {0, 1, MIN_GOOD_LEN - 1, MIN_GOOD_LEN} \cup
            ((MIN_GOOD_LEN + 1)..(MIN_GOOD_LEN + MaxOver))

\* exception classes of the HTTP client: subclasses of
\* requests.RequestException, and one class outside that hierarchy
TransportErrors == {"ConnectionError", "Timeout"}
RequestExceptions ==
    TransportErrors \cup {"HTTPError", "JSONDecodeError", "MissingSchema"}
OtherErrors == {"OtherError"}

NoExc == [cls |-> "None", attempt |-> -1]

\* JSON payload of the lookup response, by the shape of the values the code
\* touches: top is the kind of the top-level value, snaps the kind of the
\* value under "archived_snapshots", closest the kind of the value under
\* "closest", available the value under "available"
Payload(top, snaps, closest, available, u, t) ==
    [top |-> top, snaps |-> snaps, closest |-> closest,
     available |-> available, url |-> u, timestamp |-> t]

NoJson == Payload("none", "absent", "absent", "absent", NoneStr, NoneStr)
InvalidJson == Payload("invalid", "absent", "absent", "absent", NoneStr, NoneStr)

LookupPayloads ==
    { Payload("obj", "obj", "obj", av, ARCHIVE_URL, SNAPSHOT_TS) :
          av \in {"true", "false", "absent"} }
    \cup { Payload("obj", "obj", "obj", "true", NoneStr, SNAPSHOT_TS),
           Payload("obj", "obj", "obj", "true", ARCHIVE_URL, NoneStr) }
    \cup { Payload("obj", "obj", c, "absent", NoneStr, NoneStr) :
          c \in {"absent", "null", "emptyobj", "list", "str"} }
    \cup { Payload("obj", s, "absent", "absent", NoneStr, NoneStr) :
          s \in {"absent", "null", "list", "str"} }
    \cup { Payload("list", "absent", "absent", "absent", NoneStr, NoneStr),
           InvalidJson }

Response(status, text, json) == [status |-> status, text |-> text, json |-> json]
NoResp == Response(0, NoneBody, NoJson)

FetchResponses == { Response(s, n, NoJson) : s \in StatusCodes, n \in BodyLens }
LookupResponses ==
    { Response(200, 0, p) : p \in LookupPayloads }
    \cup { Response(s, 0, NoJson) : s \in StatusCodes \ {200} }

\* what one call of requests.get can do
Outcome(kind, resp, cls) == [kind |-> kind, resp |-> resp, cls |-> cls]
Outcomes(responses) ==
    { Outcome("response", r, "None") : r \in responses }
    \cup { Outcome("exception", NoResp, c) : c \in TransportErrors \cup OtherErrors }

\* the remote side: free, every attempt ends in any way, or fixed, each of
\* the three targets always answers its request in the same way
RemoteFree ==
    [fixed |-> FALSE, lookup |-> Outcome("response", NoResp, "None"),
     archive |-> Outcome("response", NoResp, "None"),
     live |-> Outcome("response", NoResp, "None")]
RemoteFixed ==
    [fixed : {TRUE}, lookup : Outcomes(LookupResponses),
     archive : Outcomes(FetchResponses), live : Outcomes(FetchResponses)]

LookupOutcomes ==
    IF remote.fixed THEN {remote.lookup} ELSE Outcomes(LookupResponses)
ArchiveOutcomes ==
    IF remote.fixed THEN {remote.archive} ELSE Outcomes(FetchResponses)

\* what requests.get can do for the live url: without a scheme it raises
\* MissingSchema (a RequestException) before anything is sent
LiveOutcomes(u) ==
    IF u \in SchemeLess
    THEN { Outcome("exception", NoResp, "MissingSchema") }
    ELSE IF remote.fixed THEN {remote.live} ELSE Outcomes(FetchResponses)

----------------------------------------------------------------------------
(* _mid_month_timestamp *)

\* a text is the sequence of its characters
DigitChars == << "0", "1", "2", "3", "4", "5", "6", "7", "8", "9" >>

\* the decimal digits of n >= 0, without leading zeros
RECURSIVE Decimal(_)
Decimal(n) ==
    IF n < 10 THEN << DigitChars[n + 1] >>
    ELSE Append(Decimal(n \div 10), DigitChars[(n % 10) + 1])

\* zeros in front of the text t up to the width w
RECURSIVE ZeroFill(_, _)
ZeroFill(t, w) == IF Len(t) >= w THEN t ELSE ZeroFill(<< "0" >> \o t, w)

\* format(n, "0wd"): the sign, when there is one, counts in the width, and
\* a number wider than w is written in full
FormatD(n, w) ==
    IF n < 0 THEN << "-" >> \o ZeroFill(Decimal(-n), w - 1)
    ELSE ZeroFill(Decimal(n), w)

\* the timestamp written with {year}{month}, without the widths
_mid_month_timestamp_noWidth(year, month) ==
    FormatD(year, 1) \o FormatD(month, 1) \o << "1", "5" >>
        \o << "1", "2", "0", "0", "0", "0" >>

\* f"{year:04d}{month:02d}15" "120000"
_mid_month_timestamp(year, month) ==
    FormatD(year, 4) \o FormatD(month, 2) \o << "1", "5" >>
        \o << "1", "2", "0", "0", "0", "0" >>

\* the (year, month) of a call: the years a caller passes (fetch_sites takes
\* --year from the command line as any int), the months 1..12
Years == {-1, 0, 5, 2017, 2023, 9999, 10000}
Months == 1..12
DateInit == [year |-> 2019, month |-> 1]

----------------------------------------------------------------------------
(* _get: the retrying HTTP primitive *)

\* state of one invocation of _get: i is the loop index of the next attempt
\* and raised the exception that left the invocation
GetInit ==
    [i |-> 0, last_exc |-> NoExc, sleeps |-> <<>>, done |-> FALSE,
     raised |-> NoExc]

GetResult(ret, resp, exc, g) == [ret |-> ret, resp |-> resp, exc |-> exc, g |-> g]

\* _get keeping the first exception instead of the last
_get_firstExc(g, o) ==
    IF o.kind = "response"
    THEN GetResult("return", o.resp, NoExc, [g EXCEPT !.done = TRUE])
    ELSE IF o.cls \in RequestExceptions
    THEN LET g2 == [g EXCEPT !.i = g.i + 1,
                             !.last_exc = IF g.last_exc = NoExc
                                          THEN [cls |-> o.cls, attempt |-> g.i]
                                          ELSE g.last_exc,
                             !.sleeps = Append(g.sleeps, backoff * (2 ^ g.i))]
         IN IF g2.i < tries
            THEN GetResult("continue", NoResp, NoExc, g2)
            ELSE GetResult("raise", NoResp, g2.last_exc,
                           [g2 EXCEPT !.done = TRUE, !.raised = g2.last_exc])
    ELSE LET e == [cls |-> o.cls, attempt |-> g.i]
         IN GetResult("raise", NoResp, e, [g EXCEPT !.done = TRUE, !.raised = e])

\* _get treating a response other than 200 as a failed attempt
_get_retryNon200(g, o) ==
    IF o.kind = "response" /\ (o.resp.status = 200 \/ g.i + 1 >= tries)
    THEN GetResult("return", o.resp, NoExc, [g EXCEPT !.done = TRUE])
    ELSE IF o.kind = "response"
    THEN GetResult("continue", NoResp, NoExc,
                   [g EXCEPT !.i = g.i + 1,
                             !.sleeps = Append(g.sleeps, backoff * (2 ^ g.i))])
    ELSE IF o.cls \in RequestExceptions
    THEN LET g2 == [g EXCEPT !.i = g.i + 1,
                             !.last_exc = [cls |-> o.cls, attempt |-> g.i],
                             !.sleeps = Append(g.sleeps, backoff * (2 ^ g.i))]
         IN IF g2.i < tries
            THEN GetResult("continue", NoResp, NoExc, g2)
            ELSE GetResult("raise", NoResp, g2.last_exc,
                           [g2 EXCEPT !.done = TRUE, !.raised = g2.last_exc])
    ELSE LET e == [cls |-> o.cls, attempt |-> g.i]
         IN GetResult("raise", NoResp, e, [g EXCEPT !.done = TRUE, !.raised = e])

\* _get with a delay growing by backoff per attempt instead of doubling
_get_linearBackoff(g, o) ==
    IF o.kind = "response"
    THEN GetResult("return", o.resp, NoExc, [g EXCEPT !.done = TRUE])
    ELSE IF o.cls \in RequestExceptions
    THEN LET g2 == [g EXCEPT !.i = g.i + 1,
                             !.last_exc = [cls |-> o.cls, attempt |-> g.i],
                             !.sleeps = Append(g.sleeps, backoff * (g.i + 1))]
         IN IF g2.i < tries
            THEN GetResult("continue", NoResp, NoExc, g2)
            ELSE GetResult("raise", NoResp, g2.last_exc,
                           [g2 EXCEPT !.done = TRUE, !.raised = g2.last_exc])
    ELSE LET e == [cls |-> o.cls, attempt |-> g.i]
         IN GetResult("raise", NoResp, e, [g EXCEPT !.done = TRUE, !.raised = e])

\* _get sleeping only between attempts, not after the last one
_get_sleepBetween(g, o) ==
    IF o.kind = "response"
    THEN GetResult("return", o.resp, NoExc, [g EXCEPT !.done = TRUE])
    ELSE IF o.cls \in RequestExceptions
    THEN LET g2 == [g EXCEPT !.i = g.i + 1,
                             !.last_exc = [cls |-> o.cls, attempt |-> g.i],
                             !.sleeps = IF g.i + 1 < tries
                                        THEN Append(g.sleeps, backoff * (2 ^ g.i))
                                        ELSE g.sleeps]
         IN IF g2.i < tries
            THEN GetResult("continue", NoResp, NoExc, g2)
            ELSE GetResult("raise", NoResp, g2.last_exc,
                           [g2 EXCEPT !.done = TRUE, !.raised = g2.last_exc])
    ELSE LET e == [cls |-> o.cls, attempt |-> g.i]
         IN GetResult("raise", NoResp, e, [g EXCEPT !.done = TRUE, !.raised = e])

\* _get with a loop of tries + 1 iterations
_get_oneMoreTry(g, o) ==
    IF o.kind = "response"
    THEN GetResult("return", o.resp, NoExc, [g EXCEPT !.done = TRUE])
    ELSE IF o.cls \in RequestExceptions
    THEN LET g2 == [g EXCEPT !.i = g.i + 1,
                             !.last_exc = [cls |-> o.cls, attempt |-> g.i],
                             !.sleeps = Append(g.sleeps, backoff * (2 ^ g.i))]
         IN IF g2.i < tries + 1
            THEN GetResult("continue", NoResp, NoExc, g2)
            ELSE GetResult("raise", NoResp, g2.last_exc,
                           [g2 EXCEPT !.done = TRUE, !.raised = g2.last_exc])
    ELSE LET e == [cls |-> o.cls, attempt |-> g.i]
         IN GetResult("raise", NoResp, e, [g EXCEPT !.done = TRUE, !.raised = e])

\* one iteration of the loop of _get on the outcome o of requests.get, and,
\* when it was the last iteration, the code after the loop
_get(g, o) ==
    IF o.kind = "response"
    THEN GetResult("return", o.resp, NoExc, [g EXCEPT !.done = TRUE])
    ELSE IF o.cls \in RequestExceptions
    THEN LET g2 == [g EXCEPT !.i = g.i + 1,
                             !.last_exc = [cls |-> o.cls, attempt |-> g.i],
                             !.sleeps = Append(g.sleeps, backoff * (2 ^ g.i))]
         IN IF g2.i < tries
            THEN GetResult("continue", NoResp, NoExc, g2)
            ELSE GetResult("raise", NoResp, g2.last_exc,
                           [g2 EXCEPT !.done = TRUE, !.raised = g2.last_exc])
    ELSE LET e == [cls |-> o.cls, attempt |-> g.i]
         IN GetResult("raise", NoResp, e, [g EXCEPT !.done = TRUE, !.raised = e])

----------------------------------------------------------------------------
(* wayback_lookup *)

LookupRet(exc, a_url, ts) == [exc |-> exc, a_url |-> a_url, ts |-> ts]

\* the body of the try block of wayback_lookup, given how _get ended:
\* raise_for_status, r.json(), and the two chained .get calls; exc is the
\* class of the exception the block raises, "None" when it returns
\* (r.json() on a body that is not JSON raises
\* requests.exceptions.JSONDecodeError, a RequestException since requests
\* 2.27; .get on a value that is not a dict raises AttributeError)
lookup_try(gr) ==
    IF gr.ret = "raise" THEN LookupRet(gr.exc.cls, NoneStr, NoneStr)
    ELSE IF gr.resp.status >= 400 THEN LookupRet("HTTPError", NoneStr, NoneStr)
    ELSE LET p == gr.resp.json IN
         IF p.top = "invalid" THEN LookupRet("JSONDecodeError", NoneStr, NoneStr)
         ELSE IF p.top /= "obj" THEN LookupRet("AttributeError", NoneStr, NoneStr)
         ELSE IF p.snaps = "absent" THEN LookupRet("None", NoneStr, NoneStr)
         ELSE IF p.snaps /= "obj" THEN LookupRet("AttributeError", NoneStr, NoneStr)
         ELSE IF p.closest \in {"absent", "null", "emptyobj"}
              THEN LookupRet("None", NoneStr, NoneStr)
         ELSE IF p.closest /= "obj" THEN LookupRet("AttributeError", NoneStr, NoneStr)
         ELSE IF p.available = "true" THEN LookupRet("None", p.url, p.timestamp)
         ELSE LookupRet("None", NoneStr, NoneStr)

\* wayback_lookup without its `if not url` guard
lookup_requests_always(u) == TRUE

\* `if not url: return None, None`: the lookup goes to the network only
\* for a non-empty url
lookup_requests(u) == TruthyStr(u)

\* wayback_lookup catching only the transport errors of _get
wayback_lookup_transportOnly(u, gr) ==
    IF ~lookup_requests(u) THEN LookupRet("None", NoneStr, NoneStr)
    ELSE LET t == lookup_try(gr) IN
         IF t.exc \in TransportErrors
         THEN LookupRet("None", NoneStr, NoneStr)
         ELSE t

wayback_lookup(u, gr) ==
    IF ~lookup_requests(u) THEN LookupRet("None", NoneStr, NoneStr)
    ELSE LET t == lookup_try(gr) IN
         IF t.exc \in RequestExceptions
         THEN LookupRet("None", NoneStr, NoneStr)
         ELSE t

----------------------------------------------------------------------------
(* fetch_live, fetch_archived *)

FetchRet(exc, html, code) == [exc |-> exc, html |-> html, code |-> code]

\* fetch_live without its `if not url` guard
live_requests_always(u) == TRUE

live_requests(u) == TruthyStr(u)

\* fetch_live without its except clause
fetch_live_reraise(u, gr) ==
    IF ~live_requests(u) THEN FetchRet("None", NoneBody, 0)
    ELSE IF gr.ret = "raise"
    THEN FetchRet(gr.exc.cls, NoneBody, 0)
    ELSE IF gr.resp.status = 200 /\ TruthyBody(gr.resp.text)
            /\ len(gr.resp.text) > MIN_GOOD_LEN
    THEN FetchRet("None", gr.resp.text, gr.resp.status)
    ELSE FetchRet("None", NoneBody, gr.resp.status)

\* fetch_live keeping a body of exactly MIN_GOOD_LEN characters
fetch_live_inclusive(u, gr) ==
    IF ~live_requests(u) THEN FetchRet("None", NoneBody, 0)
    ELSE IF gr.ret = "raise"
    THEN IF gr.exc.cls \in RequestExceptions
         THEN FetchRet("None", NoneBody, 0)
         ELSE FetchRet(gr.exc.cls, NoneBody, 0)
    ELSE IF gr.resp.status = 200 /\ TruthyBody(gr.resp.text)
            /\ len(gr.resp.text) >= MIN_GOOD_LEN
    THEN FetchRet("None", gr.resp.text, gr.resp.status)
    ELSE FetchRet("None", NoneBody, gr.resp.status)

\* fetch_live returning status 0 whenever it returns no body
fetch_live_zeroStatus(u, gr) ==
    IF ~live_requests(u) THEN FetchRet("None", NoneBody, 0)
    ELSE IF gr.ret = "raise"
    THEN IF gr.exc.cls \in RequestExceptions
         THEN FetchRet("None", NoneBody, 0)
         ELSE FetchRet(gr.exc.cls, NoneBody, 0)
    ELSE IF gr.resp.status = 200 /\ TruthyBody(gr.resp.text)
            /\ len(gr.resp.text) > MIN_GOOD_LEN
    THEN FetchRet("None", gr.resp.text, gr.resp.status)
    ELSE FetchRet("None", NoneBody, 0)

fetch_live(u, gr) ==
    IF ~live_requests(u) THEN FetchRet("None", NoneBody, 0)
    ELSE IF gr.ret = "raise"
    THEN IF gr.exc.cls \in RequestExceptions
         THEN FetchRet("None", NoneBody, 0)
         ELSE FetchRet(gr.exc.cls, NoneBody, 0)
    ELSE IF gr.resp.status = 200 /\ TruthyBody(gr.resp.text)
            /\ len(gr.resp.text) > MIN_GOOD_LEN
    THEN FetchRet("None", gr.resp.text, gr.resp.status)
    ELSE FetchRet("None", NoneBody, gr.resp.status)

archived_requests(u) == TruthyStr(u)

\* fetch_archived keeping every non-empty body of a 200 response
fetch_archived_noGate(archive_url, gr) ==
    IF ~archived_requests(archive_url) THEN FetchRet("None", NoneBody, 0)
    ELSE IF gr.ret = "raise"
    THEN IF gr.exc.cls \in RequestExceptions
         THEN FetchRet("None", NoneBody, 0)
         ELSE FetchRet(gr.exc.cls, NoneBody, 0)
    ELSE IF gr.resp.status = 200 /\ TruthyBody(gr.resp.text)
    THEN FetchRet("None", gr.resp.text, gr.resp.status)
    ELSE FetchRet("None", NoneBody, gr.resp.status)

fetch_archived(archive_url, gr) ==
    IF ~archived_requests(archive_url) THEN FetchRet("None", NoneBody, 0)
    ELSE IF gr.ret = "raise"
    THEN IF gr.exc.cls \in RequestExceptions
         THEN FetchRet("None", NoneBody, 0)
         ELSE FetchRet(gr.exc.cls, NoneBody, 0)
    ELSE IF gr.resp.status = 200 /\ TruthyBody(gr.resp.text)
            /\ len(gr.resp.text) > MIN_GOOD_LEN
    THEN FetchRet("None", gr.resp.text, gr.resp.status)
    ELSE FetchRet("None", NoneBody, gr.resp.status)

----------------------------------------------------------------------------
(* collect_dual *)

OutInit ==
    [archive_html |-> 0, status_archive |-> "",
     archive_url |-> "", snapshot_ts |-> "",
     live_html |-> 0, status_live |-> "",
     chosen_provenance |-> "none", reason |-> ""]

LocInit ==
    [a_url |-> NoneStr, ts |-> NoneStr,
     html_a |-> NoneBody, code_a |-> -1,
     html_l |-> NoneBody, code_l |-> -1]

\* collect_dual calling fetch_archived whatever the lookup returned
archive_branch_always(a_url) == TRUE

\* `if a_url:`
archive_branch(a_url) == TruthyStr(a_url)

\* collect_dual skipping the live fetch once the archive body is good
after_archive_shortCircuit(o) ==
    IF len(o.archive_html) >= MIN_GOOD_LEN THEN "select" ELSE "live"

\* the position after the archive step: the live fetch, unconditionally
after_archive(o) == "live"

\* collect_dual deciding for the archive as soon as its body is stored
set_archive_selectsEarly(o, a_url, ts, html_a, code_a) ==
    LET o2 == [o EXCEPT !.archive_html = BodyOrEmpty(html_a),
                        !.status_archive = StatusStr(code_a),
                        !.archive_url = a_url,
                        !.snapshot_ts = StrOrEmpty(ts)]
    IN IF len(o2.archive_html) >= MIN_GOOD_LEN
       THEN [o2 EXCEPT !.chosen_provenance = "archive", !.reason = "archive_ok"]
       ELSE o2

\* collect_dual recording the snapshot only when its body was kept
set_archive_urlOnSuccess(o, a_url, ts, html_a, code_a) ==
    IF TruthyBody(html_a)
    THEN [o EXCEPT !.archive_html = BodyOrEmpty(html_a),
                   !.status_archive = StatusStr(code_a),
                   !.archive_url = a_url,
                   !.snapshot_ts = StrOrEmpty(ts)]
    ELSE [o EXCEPT !.status_archive = StatusStr(code_a)]

set_archive(o, a_url, ts, html_a, code_a) ==
    [o EXCEPT !.archive_html = BodyOrEmpty(html_a),
              !.status_archive = StatusStr(code_a),
              !.archive_url = a_url,
              !.snapshot_ts = StrOrEmpty(ts)]

set_live(o, html_l, code_l) ==
    [o EXCEPT !.live_html = BodyOrEmpty(html_l),
              !.status_live = StatusStr(code_l)]

\* the selection trying the live body first
choose_liveFirst(o) ==
    IF len(o.live_html) >= MIN_GOOD_LEN
    THEN [o EXCEPT !.chosen_provenance = "live",
                   !.reason = "archive_missing_or_small_live_ok"]
    ELSE IF len(o.archive_html) >= MIN_GOOD_LEN
    THEN [o EXCEPT !.chosen_provenance = "archive", !.reason = "archive_ok"]
    ELSE [o EXCEPT !.chosen_provenance = "none",
                   !.reason = "both_missing_or_small"]

\* the selection going by the status codes instead of the body lengths
choose_byStatus(o) ==
    IF o.status_archive = "200"
    THEN [o EXCEPT !.chosen_provenance = "archive", !.reason = "archive_ok"]
    ELSE IF o.status_live = "200"
    THEN [o EXCEPT !.chosen_provenance = "live",
                   !.reason = "archive_missing_or_small_live_ok"]
    ELSE [o EXCEPT !.chosen_provenance = "none",
                   !.reason = "both_missing_or_small"]

\* 3) Choose authoritative for this month (archive-first)
choose(o) ==
    IF len(o.archive_html) >= MIN_GOOD_LEN
    THEN [o EXCEPT !.chosen_provenance = "archive", !.reason = "archive_ok"]
    ELSE IF len(o.live_html) >= MIN_GOOD_LEN
    THEN [o EXCEPT !.chosen_provenance = "live",
                   !.reason = "archive_missing_or_small_live_ok"]
    ELSE [o EXCEPT !.chosen_provenance = "none",
                   !.reason = "both_missing_or_small"]

\* requests.get called without headers= on a retry: the client's default
\* User-Agent goes out
Request_defaultUAOnRetry(op, attempt, o) ==
    [op |-> op, attempt |-> attempt,
     headers |-> IF attempt = 0 THEN HEADERS
                 ELSE [UserAgent |-> "python-requests/2.31.0"],
     timestamp |-> IF op = "lookup"
                   THEN _mid_month_timestamp(date.year, date.month) ELSE << >>,
     result |-> IF o.kind = "response" THEN "response" ELSE o.cls]

\* one call of requests.get as the remote side sees it: the headers, for
\* the lookup the timestamp parameter of the query, and how the call ended,
\* "response" or the class of the exception
Request(op, attempt, o) ==
    [op |-> op, attempt |-> attempt, headers |-> HEADERS,
     timestamp |-> IF op = "lookup"
                   THEN _mid_month_timestamp(date.year, date.month) ELSE << >>,
     result |-> IF o.kind = "response" THEN "response" ELSE o.cls]

NoEscape == [cls |-> "None", op |-> "none"]

\* what the earlier calls of a run left behind: how many there were, the
\* result each url got, and the headers their requests carried
NoResult == [seen |-> FALSE, out |-> OutInit]
HistInit ==
    [ncalls |-> 0, results |-> [u \in Urls |-> NoResult], headers |-> {}]

----------------------------------------------------------------------------
(* fetch_all_sites: the batch caller and its manifest *)

START_YEAR == 2017
END_YEAR == 2023
NumPeriods == (END_YEAR - START_YEAR + 1) * 12
\* the (year, month) of the p-th iteration of the two nested loops
YearOf(p) == START_YEAR + (p \div 12)
MonthOf(p) == (p % 12) + 1

\* a cell pandas read as missing, and str() of a cell
NaN == "<NaN>"
PyStr(v) == IF v = NaN THEN "nan" ELSE v
\* str.strip on the cells of the panel
Strip(v) ==
    CASE v = "412172 " -> "412172"
      [] v = "  " -> ""
      [] OTHER -> v
\* a written cell as read_csv(dtype=str) followed by astype(str) gives it
\* back: the tokens pandas takes for missing come back as "nan"
NaTokens == {"", "nan", "NaN", "NA", "N/A", "NULL", "null", "None", "<NA>"}
ReadBack(v) == IF v \in NaTokens THEN "nan" ELSE v

PanelRow(gid, bid, y, m, site) ==
    [GovtrackID |-> gid, BioID |-> bid, Year |-> y, Month |-> m,
     official_website |-> site]

\* the panel as read_csv(dtype=str) returns it: identifiers of a roster,
\* one of them missing, one padded, one blank; keys that occur twice; a row
\* without website and one with a blank website
PANEL ==
    << PanelRow(NaN, "C001130", "2017", "1", "rep.house.gov"),
       PanelRow("412172", "B001230", "2017", "1", "https://rep.house.gov"),
       PanelRow("412172 ", "B001230", "2017", "1", "https://rep.house.gov"),
       PanelRow("412173", "D000611", "2017", "2", NaN),
       PanelRow("412173", "D000611", "2017", "2", "  "),
       PanelRow("  ", "E000299", "2017", "2", "https://rep.house.gov"),
       PanelRow("412172", "B001230", "2023", "12", "https://rep.house.gov"),
       PanelRow("412172", "B001230", "2023", "12", "https://rep.house.gov") >>

\* df = df[df["official_website"].notna()]
df == SelectSeq(PANEL, LAMBDA r : r.official_website /= NaN)
\* sub = df[(df["Year"] == str(year)) & (df["Month"] == str(month))]
sub(p) ==
    SelectSeq(df, LAMBDA r : r.Year = ToString(YearOf(p))
                             /\ r.Month = ToString(MonthOf(p)))

\* key = f"{gid}|{bid}|{year}|{month}", as the tuple of its four parts
RowKey(r, p) ==
    << Strip(PyStr(r.GovtrackID)), Strip(PyStr(r.BioID)),
       ToString(YearOf(p)), ToString(MonthOf(p)) >>

\* existing_keys: the four key columns of the manifest as read back
load_existing_keys(manifest) ==
    { << ReadBack(manifest[k].GovtrackID), ReadBack(manifest[k].BioID),
         ReadBack(manifest[k].Year), ReadBack(manifest[k].Month) >> :
      k \in 1..Len(manifest) }

\* a file under outputs/html/YYYY_MM/: base, year, month and branch; the
\* empty path "" is NoPath
HtmlPath(gid, bid, p, branch) ==
    << IF gid /= "" THEN gid ELSE IF bid /= "" THEN bid ELSE "unknown",
       YearOf(p), MonthOf(p), branch >>
NoPath == << >>

\* the manifest row built from the panel row r of period p and the result
ManifestRow(r, p, res) ==
    LET gid == Strip(PyStr(r.GovtrackID))
        bid == Strip(PyStr(r.BioID))
        archive_path == HtmlPath(gid, bid, p, "archive")
        live_path == HtmlPath(gid, bid, p, "live")
        chosen == res.chosen_provenance
    IN [GovtrackID |-> gid, BioID |-> bid,
        Year |-> ToString(YearOf(p)), Month |-> ToString(MonthOf(p)),
        source_url_live |-> Strip(PyStr(r.official_website)),
        source_url_archive |-> res.archive_url,
        archive_snapshot_ts |-> res.snapshot_ts,
        status_live |-> res.status_live,
        status_archive |-> res.status_archive,
        provenance_chosen |-> chosen,
        chosen_reason |-> res.reason,
        html_path_chosen |-> IF chosen = "archive" THEN archive_path
                             ELSE IF chosen = "live" THEN live_path ELSE NoPath,
        html_path_archive |-> IF TruthyBody(res.archive_html)
                              THEN archive_path ELSE NoPath,
        html_path_live |-> IF TruthyBody(res.live_html) THEN live_path ELSE NoPath,
        text_len_archive |-> ToString(len(BodyOrEmpty(res.archive_html))),
        text_len_live |-> ToString(len(BodyOrEmpty(res.live_html)))]

\* fetch_all_sites writing the live body only
WrittenFiles_liveOnly(r, p, res) ==
    LET gid == Strip(PyStr(r.GovtrackID))
        bid == Strip(PyStr(r.BioID))
    IN IF TruthyBody(res.live_html)
       THEN {[path |-> HtmlPath(gid, bid, p, "live"), text |-> res.live_html]}
       ELSE {}

\* the html files written for the panel row r of period p
WrittenFiles(r, p, res) ==
    LET gid == Strip(PyStr(r.GovtrackID))
        bid == Strip(PyStr(r.BioID))
    IN (IF TruthyBody(res.archive_html)
        THEN {[path |-> HtmlPath(gid, bid, p, "archive"), text |-> res.archive_html]}
        ELSE {})
       \cup
       (IF TruthyBody(res.live_html)
        THEN {[path |-> HtmlPath(gid, bid, p, "live"), text |-> res.live_html]}
        ELSE {})

\* write_text: the files on disk after the files new are written; a file
\* already there under the same path is replaced
WriteFiles(files, new) ==
    { f \in files : \A n \in new : n.path /= f.path } \cup new

\* the state of the batch: the process (run, phase, loop position p and i,
\* manifest_rows, existing_keys, total_rows) and the disk (manifest, files,
\* the manifest of fetch_sites, sites_manifest, and the manifest with the
\* columns of manifest_quality, with_quality)
BatchInit ==
    [run |-> 0, phase |-> "off", p |-> 0, i |-> 1,
     manifest_rows |-> << >>, existing_keys |-> {}, total_rows |-> 0,
     manifest |-> << >>, files |-> {}, sites_manifest |-> << >>,
     with_quality |-> << >>]

----------------------------------------------------------------------------
(* fetch_sites: the caller for one month *)

\* the panel as csv.DictReader returns it: a missing cell is ""
panel_rows ==
    [k \in 1..Len(PANEL) |->
        [c \in DOMAIN PANEL[k] |-> IF PANEL[k][c] = NaN THEN "" ELSE PANEL[k][c]]]

\* int(row.get("Year", "0")) / int(row.get("Month", "0")); NoInt stands for
\* the ValueError
NoInt == -1
IntOf(s) ==
    LET range == (1..12) \cup (START_YEAR..END_YEAR) IN
    IF \E n \in range : ToString(n) = s
    THEN CHOOSE n \in range : ToString(n) = s
    ELSE NoInt

\* the months fetch_sites is run for (--year, --month)
SitesPeriods == {0, 1}

\* normalize_url: strip, and https:// in front of a url without scheme
normalize_url(u) ==
    LET s == Strip(u) IN
    CASE s = "" -> ""
      [] s = "rep.house.gov" -> "https://rep.house.gov"
      [] OTHER -> s

\* a file under <out_dir>/html/
SitesHtmlPath(gid, bid, p, branch) ==
    << "out_dir",
       IF gid /= "" THEN gid ELSE IF bid /= "" THEN bid ELSE "unknown",
       YearOf(p), MonthOf(p), branch >>

\* the manifest row fetch_sites builds from the panel row and the result
SitesManifestRow(row, p, result) ==
    LET gid == Strip(row.GovtrackID)
        bid == Strip(row.BioID)
        archive_path == SitesHtmlPath(gid, bid, p, "archive")
        live_path == SitesHtmlPath(gid, bid, p, "live")
        archive_html == BodyOrEmpty(result.archive_html)
        live_html == BodyOrEmpty(result.live_html)
        chosen == result.chosen_provenance
    IN [GovtrackID |-> gid, BioID |-> bid,
        Year |-> ToString(YearOf(p)), Month |-> ToString(MonthOf(p)),
        source_url_live |-> normalize_url(row.official_website),
        source_url_archive |-> result.archive_url,
        archive_snapshot_ts |-> result.snapshot_ts,
        status_live |-> result.status_live,
        status_archive |-> result.status_archive,
        provenance_chosen |-> chosen,
        chosen_reason |-> result.reason,
        html_path_chosen |->
            IF chosen = "archive" /\ TruthyBody(archive_html) THEN archive_path
            ELSE IF chosen = "live" /\ TruthyBody(live_html) THEN live_path
            ELSE NoPath,
        html_path_archive |-> IF TruthyBody(archive_html) THEN archive_path ELSE NoPath,
        html_path_live |-> IF TruthyBody(live_html) THEN live_path ELSE NoPath,
        text_len_archive |-> ToString(len(archive_html)),
        text_len_live |-> ToString(len(live_html))]

\* the html files fetch_sites writes for the panel row
SitesWrittenFiles(row, p, result) ==
    LET gid == Strip(row.GovtrackID)
        bid == Strip(row.BioID)
        archive_html == BodyOrEmpty(result.archive_html)
        live_html == BodyOrEmpty(result.live_html)
    IN (IF TruthyBody(archive_html)
        THEN {[path |-> SitesHtmlPath(gid, bid, p, "archive"), text |-> archive_html]}
        ELSE {})
       \cup
       (IF TruthyBody(live_html)
        THEN {[path |-> SitesHtmlPath(gid, bid, p, "live"), text |-> live_html]}
        ELSE {})

----------------------------------------------------------------------------
(* manifest_quality: the quality columns of the master manifest *)

\* the lengths a text_len cell of the manifest can hold
TextLens == 0..(MIN_GOOD_LEN + MaxOver)

\* to_int_safe: int(str(x).strip()), 0 for what is no integer
to_int_safe(x) ==
    IF \E n \in TextLens : ToString(n) = x
    THEN CHOOSE n \in TextLens : ToString(n) = x
    ELSE 0

\* col_str on a text cell as read_csv(dtype=str) returns it: "" for a cell
\* pandas takes for missing
col_str(val) == IF val \in NaTokens THEN "" ELSE Strip(val)

\* col_str on the cell of html_path_chosen: the empty path is read as
\* missing and comes back as the empty path
col_str_path(val) == IF val = NoPath THEN NoPath ELSE val

\* the length of the chosen branch, from the text_len column of a branch
\* other than the chosen one
chosen_length_otherBranch(prov, row) ==
    IF prov = "archive" THEN to_int_safe(row.text_len_live)
    ELSE IF prov = "live" THEN to_int_safe(row.text_len_archive)
    ELSE 0

\* length: the text_len column of the chosen branch, 0 without provenance
chosen_length(prov, row) ==
    IF prov = "archive" THEN to_int_safe(row.text_len_archive)
    ELSE IF prov = "live" THEN to_int_safe(row.text_len_live)
    ELSE 0

\* Path(path).read_text: the text of the file, "" when it cannot be read
read_text(files, path) ==
    IF \E f \in files : f.path = path
    THEN (CHOOSE f \in files : f.path = path).text
    ELSE 0

TINY_LEN == 400
SHORT_LEN == 1500

\* classify_quality; has_error_pattern says whether one of error_patterns
\* occurs in the text
classify_quality(html_text, length, has_error_pattern) ==
    IF length <= 0 \/ ~TruthyBody(html_text) THEN "missing"
    ELSE IF has_error_pattern THEN "error_like"
    ELSE IF length < TINY_LEN THEN "tiny"
    ELSE IF length < SHORT_LEN THEN "short"
    ELSE "good"

\* the row of the manifest with html_len_chosen and html_quality_flag;
\* error_branches are the branches whose pages hold an error pattern
QualityRow(row, files, error_branches) ==
    LET prov == col_str(row.provenance_chosen)
        path == col_str_path(row.html_path_chosen)
        length == chosen_length(prov, row)
        html_text == IF path /= NoPath /\ length > 0
                     THEN read_text(files, path) ELSE 0
        q == classify_quality(html_text, length, prov \in error_branches)
    IN [c \in DOMAIN row \cup {"html_len_chosen", "html_quality_flag"} |->
          CASE c = "html_len_chosen" -> length
            [] c = "html_quality_flag" -> q
            [] OTHER -> row[c]]

----------------------------------------------------------------------------
(* State machine *)

Init ==
    /\ pc = "idle"
    /\ url = ""
    /\ date = DateInit
    /\ gets = [lookup |-> GetInit, archive |-> GetInit, live |-> GetInit]
    /\ loc = LocInit
    /\ out = OutInit
    /\ served = [lookup |-> NoResp, archive |-> NoResp, live |-> NoResp]
    /\ calls = [lookup |-> 0, archive |-> 0, live |-> 0]
    /\ reqlog = <<>>
    /\ escaped = NoEscape
    /\ remote = RemoteFree
    /\ hist = HistInit
    /\ batch = BatchInit

\* collect_dual filling a dict that outlives the call instead of a new one
Call_keepsOut ==
    /\ pc = "idle"
    /\ \E u \in Urls : url' = u
    /\ pc' = "lookup"
    /\ out' = out
    /\ calls' = [calls EXCEPT !.lookup = @ + 1]
    /\ UNCHANGED <<date, gets, loc, served, reqlog, escaped, remote, hist, batch>>

\* collect_dual(url, year, month) is entered: out is built and
\* wayback_lookup is called
Call ==
    /\ pc = "idle"
    /\ \E u \in Urls : url' = u
    /\ pc' = "lookup"
    /\ out' = OutInit
    /\ calls' = [calls EXCEPT !.lookup = @ + 1]
    /\ UNCHANGED <<date, gets, loc, served, reqlog, escaped, remote, hist, batch>>

\* wayback_lookup has ended with r: an exception leaves collect_dual,
\* otherwise `if a_url:` calls fetch_archived or falls to fetch_live
LookupEnds(r) ==
    IF r.exc /= "None"
    THEN /\ pc' = "raised"
         /\ escaped' = [cls |-> r.exc, op |-> "lookup"]
         /\ UNCHANGED <<loc, calls>>
    ELSE /\ loc' = [loc EXCEPT !.a_url = r.a_url, !.ts = r.ts]
         /\ IF archive_branch(r.a_url)
            THEN pc' = "archive" /\ calls' = [calls EXCEPT !.archive = @ + 1]
            ELSE pc' = "live" /\ calls' = [calls EXCEPT !.live = @ + 1]
         /\ UNCHANGED escaped

LookupStep ==
    /\ pc = "lookup"
    /\ IF ~lookup_requests(url)
       THEN /\ LookupEnds(wayback_lookup(url, GetResult("return", NoResp, NoExc, GetInit)))
            /\ UNCHANGED <<gets, served, reqlog>>
       ELSE \E o \in LookupOutcomes :
              LET gr == _get(gets.lookup, o) IN
              /\ reqlog' = Append(reqlog, Request("lookup", gets.lookup.i, o))
              /\ gets' = [gets EXCEPT !.lookup = gr.g]
              /\ IF gr.ret = "continue"
                 THEN UNCHANGED <<pc, loc, calls, served, escaped>>
                 ELSE /\ served' = [served EXCEPT !.lookup = gr.resp]
                      /\ LookupEnds(wayback_lookup(url, gr))
    /\ UNCHANGED <<url, date, out, remote, hist, batch>>

\* fetch_archived has ended with r
ArchiveEnds(r) ==
    IF r.exc /= "None"
    THEN /\ pc' = "raised"
         /\ escaped' = [cls |-> r.exc, op |-> "archive"]
         /\ UNCHANGED <<loc, out, calls>>
    ELSE /\ loc' = [loc EXCEPT !.html_a = r.html, !.code_a = r.code]
         /\ out' = set_archive(out, loc.a_url, loc.ts, r.html, r.code)
         /\ IF after_archive(out') = "live"
            THEN pc' = "live" /\ calls' = [calls EXCEPT !.live = @ + 1]
            ELSE pc' = "select" /\ UNCHANGED calls
         /\ UNCHANGED escaped

ArchiveStep ==
    /\ pc = "archive"
    /\ IF ~archived_requests(loc.a_url)
       THEN /\ ArchiveEnds(fetch_archived(loc.a_url, GetResult("return", NoResp, NoExc, GetInit)))
            /\ UNCHANGED <<gets, served, reqlog>>
       ELSE \E o \in ArchiveOutcomes :
              LET gr == _get(gets.archive, o) IN
              /\ reqlog' = Append(reqlog, Request("archive", gets.archive.i, o))
              /\ gets' = [gets EXCEPT !.archive = gr.g]
              /\ IF gr.ret = "continue"
                 THEN UNCHANGED <<pc, loc, out, calls, served, escaped>>
                 ELSE /\ served' = [served EXCEPT !.archive = gr.resp]
                      /\ ArchiveEnds(fetch_archived(loc.a_url, gr))
    /\ UNCHANGED <<url, date, remote, hist, batch>>

\* fetch_live has ended with r
LiveEnds(r) ==
    IF r.exc /= "None"
    THEN /\ pc' = "raised"
         /\ escaped' = [cls |-> r.exc, op |-> "live"]
         /\ UNCHANGED <<loc, out>>
    ELSE /\ loc' = [loc EXCEPT !.html_l = r.html, !.code_l = r.code]
         /\ out' = set_live(out, r.html, r.code)
         /\ pc' = "select"
         /\ UNCHANGED escaped

LiveStep ==
    /\ pc = "live"
    /\ IF ~live_requests(url)
       THEN /\ LiveEnds(fetch_live(url, GetResult("return", NoResp, NoExc, GetInit)))
            /\ UNCHANGED <<gets, served, reqlog>>
       ELSE \E o \in LiveOutcomes(url) :
              LET gr == _get(gets.live, o) IN
              /\ reqlog' = Append(reqlog, Request("live", gets.live.i, o))
              /\ gets' = [gets EXCEPT !.live = gr.g]
              /\ IF gr.ret = "continue"
                 THEN UNCHANGED <<pc, loc, out, served, escaped>>
                 ELSE /\ served' = [served EXCEPT !.live = gr.resp]
                      /\ LiveEnds(fetch_live(url, gr))
    /\ UNCHANGED <<url, date, calls, remote, hist, batch>>

\* the selection and `return out`
Select ==
    /\ pc = "select"
    /\ out' = choose(out)
    /\ pc' = "returned"
    /\ UNCHANGED <<url, date, gets, loc, served, calls, reqlog, escaped, remote,
                   hist, batch>>

Next == Call \/ LookupStep \/ ArchiveStep \/ LiveStep \/ Select

Spec == Init /\ [][Next]_vars

\* one call in which every HTTP attempt ends (a response, a failure or the
\* 25 s timeout of requests.get) and the code between attempts runs on
SpecLive ==
    /\ Init /\ [][Next]_vars
    /\ WF_vars(LookupStep) /\ WF_vars(ArchiveStep)
    /\ WF_vars(LiveStep) /\ WF_vars(Select)

\* wayback_lookup for the (year, month) a caller may pass
InitDates ==
    /\ pc = "idle"
    /\ url = ""
    /\ date \in [year : Years, month : Months]
    /\ gets = [lookup |-> GetInit, archive |-> GetInit, live |-> GetInit]
    /\ loc = LocInit
    /\ out = OutInit
    /\ served = [lookup |-> NoResp, archive |-> NoResp, live |-> NoResp]
    /\ calls = [lookup |-> 0, archive |-> 0, live |-> 0]
    /\ reqlog = <<>>
    /\ escaped = NoEscape
    /\ remote = RemoteFree
    /\ hist = HistInit
    /\ batch = BatchInit

NextDates == Call \/ LookupStep

SpecDates == InitDates /\ [][NextDates]_vars

\* the caller has its result and gets ready to call collect_dual again:
\* the locals of the finished call are gone, the result stays with the
\* caller
CallAgain ==
    /\ pc = "returned"
    /\ hist.ncalls < MaxAgain
    /\ hist' = [ncalls |-> hist.ncalls + 1,
                results |-> [hist.results EXCEPT ![url] = [seen |-> TRUE, out |-> out]],
                headers |-> hist.headers \cup
                              {reqlog[k].headers : k \in 1..Len(reqlog)}]
    /\ pc' = "idle"
    /\ url' = ""
    /\ gets' = [lookup |-> GetInit, archive |-> GetInit, live |-> GetInit]
    /\ loc' = LocInit
    /\ served' = [lookup |-> NoResp, archive |-> NoResp, live |-> NoResp]
    /\ calls' = [lookup |-> 0, archive |-> 0, live |-> 0]
    /\ reqlog' = <<>>
    /\ UNCHANGED <<date, out, escaped, remote, batch>>

\* a run of fetch_all_sites starts: the panel and the manifest are read
RunStart ==
    /\ pc = "idle"
    /\ batch.phase \in {"off", "done", "crashed"}
    /\ batch.run < MaxRuns
    /\ batch' = [batch EXCEPT !.run = @ + 1, !.phase = "loop",
                              !.p = 0, !.i = 1,
                              !.manifest_rows = << >>,
                              !.existing_keys = load_existing_keys(batch.manifest),
                              !.total_rows = 0]
    /\ UNCHANGED <<pc, url, date, gets, loc, out, served, calls, reqlog,
                   escaped, remote, hist>>

\* one iteration of the loops of fetch_all_sites up to the call of
\* collect_dual: the end of the run, the end of a period with the append of
\* its rows to the manifest, a row that is skipped, or a row for which
\* collect_dual is entered
BatchStep ==
    /\ pc = "idle"
    /\ batch.phase = "loop"
    /\ IF batch.p >= NumPeriods
       THEN /\ batch' = [batch EXCEPT !.phase = "done"]
            /\ UNCHANGED <<pc, url, date, out, calls>>
       ELSE IF batch.i > Len(sub(batch.p))
       THEN /\ batch' = [batch EXCEPT !.p = @ + 1, !.i = 1,
                                     !.manifest_rows = << >>,
                                     !.manifest = @ \o batch.manifest_rows]
            /\ UNCHANGED <<pc, url, date, out, calls>>
       ELSE LET r == sub(batch.p)[batch.i]
                key == RowKey(r, batch.p)
                site == Strip(PyStr(r.official_website))
            IN IF key \in batch.existing_keys \/ site = ""
               THEN /\ batch' = [batch EXCEPT !.i = @ + 1]
                    /\ UNCHANGED <<pc, url, date, out, calls>>
               ELSE /\ batch' = [batch EXCEPT !.phase = "calling"]
                    /\ url' = site
                    /\ date' = [year |-> YearOf(batch.p), month |-> MonthOf(batch.p)]
                    /\ pc' = "lookup"
                    /\ out' = OutInit
                    /\ calls' = [calls EXCEPT !.lookup = @ + 1]
    /\ UNCHANGED <<gets, loc, served, reqlog, escaped, remote, hist>>

\* collect_dual has returned to fetch_all_sites: the html files are written,
\* the row is added to manifest_rows and its key to existing_keys
RowDone ==
    /\ pc = "returned"
    /\ batch.phase = "calling"
    /\ LET r == sub(batch.p)[batch.i] IN
       batch' = [batch EXCEPT
                    !.phase = "loop",
                    !.i = @ + 1,
                    !.files = WriteFiles(@, WrittenFiles(r, batch.p, out)),
                    !.manifest_rows = Append(@, ManifestRow(r, batch.p, out)),
                    !.existing_keys = @ \cup {RowKey(r, batch.p)},
                    !.total_rows = @ + 1]
    /\ pc' = "idle"
    /\ url' = ""
    /\ gets' = [lookup |-> GetInit, archive |-> GetInit, live |-> GetInit]
    /\ loc' = LocInit
    /\ served' = [lookup |-> NoResp, archive |-> NoResp, live |-> NoResp]
    /\ calls' = [lookup |-> 0, archive |-> 0, live |-> 0]
    /\ reqlog' = <<>>
    /\ UNCHANGED <<date, out, escaped, remote, hist>>

\* collect_dual has raised: nothing in fetch_all_sites or in fetch_sites
\* catches it, the run ends and what the process held is lost
RunCrashes ==
    /\ pc = "raised"
    /\ batch.phase \in {"calling", "sites_calling"}
    /\ batch' = [batch EXCEPT !.phase = IF batch.phase = "calling"
                                         THEN "crashed" ELSE "sites_crashed",
                              !.manifest_rows = << >>,
                              !.existing_keys = {},
                              !.total_rows = 0]
    /\ pc' = "idle"
    /\ url' = ""
    /\ gets' = [lookup |-> GetInit, archive |-> GetInit, live |-> GetInit]
    /\ loc' = LocInit
    /\ served' = [lookup |-> NoResp, archive |-> NoResp, live |-> NoResp]
    /\ calls' = [lookup |-> 0, archive |-> 0, live |-> 0]
    /\ reqlog' = <<>>
    /\ escaped' = NoEscape
    /\ UNCHANGED <<date, out, remote, hist>>

\* a run of fetch_sites starts for one month, the first one or one after
\* an earlier run of fetch_sites: the panel is read
SitesStart ==
    /\ pc = "idle"
    /\ batch.phase \in {"off", "sites_done", "sites_crashed"}
    /\ batch.run < MaxRuns
    /\ \E p \in SitesPeriods :
          batch' = [batch EXCEPT !.run = @ + 1, !.phase = "sites_loop",
                                 !.p = p, !.i = 1,
                                 !.manifest_rows = << >>,
                                 !.existing_keys = {},
                                 !.total_rows = 0]
    /\ UNCHANGED <<pc, url, date, gets, loc, out, served, calls, reqlog,
                   escaped, remote, hist>>

\* one iteration of the loop of fetch_sites up to the call of collect_dual:
\* a row of another month is passed over, collect_dual is entered for a row
\* of the month, or, after the last row, the manifest is written
SitesStep ==
    /\ pc = "idle"
    /\ batch.phase = "sites_loop"
    /\ IF batch.i > Len(panel_rows)
       THEN /\ batch' = [batch EXCEPT !.phase = "sites_done",
                                     !.sites_manifest = batch.manifest_rows,
                                     !.manifest_rows = << >>]
            /\ UNCHANGED <<pc, url, date, out, calls>>
       ELSE LET row == panel_rows[batch.i]
                y == IntOf(row.Year)
                m == IntOf(row.Month)
            IN IF y = NoInt \/ m = NoInt
                  \/ y /= YearOf(batch.p) \/ m /= MonthOf(batch.p)
               THEN /\ batch' = [batch EXCEPT !.i = @ + 1]
                    /\ UNCHANGED <<pc, url, date, out, calls>>
               ELSE /\ batch' = [batch EXCEPT !.phase = "sites_calling"]
                    /\ url' = normalize_url(row.official_website)
                    /\ date' = [year |-> YearOf(batch.p), month |-> MonthOf(batch.p)]
                    /\ pc' = "lookup"
                    /\ out' = OutInit
                    /\ calls' = [calls EXCEPT !.lookup = @ + 1]
    /\ UNCHANGED <<gets, loc, served, reqlog, escaped, remote, hist>>

\* collect_dual has returned to fetch_sites: the html files are written and
\* the row is added to manifest_rows
SitesRowDone ==
    /\ pc = "returned"
    /\ batch.phase = "sites_calling"
    /\ LET row == panel_rows[batch.i] IN
       batch' = [batch EXCEPT
                    !.phase = "sites_loop",
                    !.i = @ + 1,
                    !.files = WriteFiles(@, SitesWrittenFiles(row, batch.p, out)),
                    !.manifest_rows = Append(@, SitesManifestRow(row, batch.p, out)),
                    !.total_rows = @ + 1]
    /\ pc' = "idle"
    /\ url' = ""
    /\ gets' = [lookup |-> GetInit, archive |-> GetInit, live |-> GetInit]
    /\ loc' = LocInit
    /\ served' = [lookup |-> NoResp, archive |-> NoResp, live |-> NoResp]
    /\ calls' = [lookup |-> 0, archive |-> 0, live |-> 0]
    /\ reqlog' = <<>>
    /\ UNCHANGED <<date, out, escaped, remote, hist>>

\* manifest_quality is run on the master manifest after the runs of
\* fetch_all_sites: without a manifest it raises FileNotFoundError, else it
\* writes the manifest with the two quality columns. The pages of a branch
\* come from one fixed remote side, so an error pattern is in all of them or
\* in none.
ManifestQuality ==
    /\ pc = "idle"
    /\ batch.phase \in {"off", "done", "crashed"}
    /\ IF batch.run = 0
       THEN batch' = [batch EXCEPT !.phase = "quality"]
       ELSE \E error_branches \in SUBSET {"archive", "live"} :
              batch' = [batch EXCEPT
                  !.phase = "quality",
                  !.with_quality =
                      [k \in 1..Len(batch.manifest) |->
                          QualityRow(batch.manifest[k], batch.files,
                                     error_branches)]]
    /\ UNCHANGED <<pc, url, date, gets, loc, out, served, calls, reqlog,
                   escaped, remote, hist>>

\* repeated calls against a remote side whose answers are fixed
InitFixed ==
    /\ pc = "idle"
    /\ url = ""
    /\ date = DateInit
    /\ gets = [lookup |-> GetInit, archive |-> GetInit, live |-> GetInit]
    /\ loc = LocInit
    /\ out = OutInit
    /\ served = [lookup |-> NoResp, archive |-> NoResp, live |-> NoResp]
    /\ calls = [lookup |-> 0, archive |-> 0, live |-> 0]
    /\ reqlog = <<>>
    /\ escaped = NoEscape
    /\ remote \in RemoteFixed
    /\ hist = HistInit
    /\ batch = BatchInit

NextFixed == Call \/ LookupStep \/ ArchiveStep \/ LiveStep \/ Select \/ CallAgain

SpecFixed == InitFixed /\ [][NextFixed]_vars

\* runs of fetch_all_sites against a remote side whose answers are fixed
NextBatch ==
    \/ RunStart \/ BatchStep \/ LookupStep \/ ArchiveStep \/ LiveStep \/ Select
    \/ RowDone \/ RunCrashes

SpecBatch == InitFixed /\ [][NextBatch]_vars

\* runs of fetch_all_sites, and manifest_quality after them
NextQuality == NextBatch \/ ManifestQuality

SpecQuality == InitFixed /\ [][NextQuality]_vars

\* runs of fetch_all_sites, or runs of fetch_sites
NextCallers == NextBatch \/ SitesStart \/ SitesStep \/ SitesRowDone

SpecCallers == InitFixed /\ [][NextCallers]_vars

----------------------------------------------------------------------------
(* Observations on a state *)

Ops == {"lookup", "archive", "live"}

\* the requests of one network operation, in the order they were made
OpReqs(op) == SelectSeq(reqlog, LAMBDA r : r.op = op)

\* all `tries` attempts of the operation raised a transport exception
Exhausted(op) ==
    /\ Len(OpReqs(op)) = tries
    /\ \A k \in 1..tries : OpReqs(op)[k].result \in TransportErrors

\* wayback_lookup has returned to collect_dual (it did not raise)
LookupReturned == calls.archive + calls.live > 0
\* fetch_archived has returned to collect_dual
ArchiveReturned == calls.archive = 1 /\ loc.code_a /= -1
\* fetch_live has returned to collect_dual
LiveReturned == calls.live = 1 /\ loc.code_l /= -1

Returned == pc = "returned"

----------------------------------------------------------------------------
(* Properties *)

\* C1: in every result of collect_dual, chosen_provenance is 'archive' iff
\* the archive body has at least MIN_GOOD_LEN characters; failing that it is
\* 'live' iff the live body has at least MIN_GOOD_LEN characters; failing
\* both it is 'none'.
C1_ProvenanceByLengths ==
    Returned =>
        /\ out.chosen_provenance = "archive" <=> len(out.archive_html) >= MIN_GOOD_LEN
        /\ len(out.archive_html) < MIN_GOOD_LEN =>
              (out.chosen_provenance = "live" <=> len(out.live_html) >= MIN_GOOD_LEN)
        /\ (len(out.archive_html) < MIN_GOOD_LEN /\ len(out.live_html) < MIN_GOOD_LEN)
              => out.chosen_provenance = "none"

\* a result where both bodies are good and the archive won
C1_Witness ==
    /\ Returned
    /\ len(out.archive_html) >= MIN_GOOD_LEN
    /\ len(out.live_html) >= MIN_GOOD_LEN
    /\ out.chosen_provenance = "archive"

\* C2: threshold boundary through collect_dual.  An archived snapshot served
\* with status 200 and exactly MIN_GOOD_LEN characters, with an empty live
\* body, gives provenance 'archive'; an archived body of MIN_GOOD_LEN - 1
\* characters with a live page served with status 200 and exactly
\* MIN_GOOD_LEN characters gives provenance 'live'.
C2_ThresholdBoundary ==
    Returned =>
        /\ (/\ served.archive = Response(200, MIN_GOOD_LEN, NoJson)
            /\ out.live_html = 0)
              => out.chosen_provenance = "archive"
        /\ (/\ served.archive = Response(200, MIN_GOOD_LEN - 1, NoJson)
            /\ served.live = Response(200, MIN_GOOD_LEN, NoJson))
              => out.chosen_provenance = "live"

\* C3: whenever collect_dual returns, fetch_live was invoked exactly once,
\* whatever the lookup and the archive fetch did, and live_html and
\* status_live of the result are what that invocation returned.
C3_LiveAlwaysAttempted ==
    Returned =>
        /\ calls.live = 1
        /\ LiveReturned
        /\ url /= "" => (Len(OpReqs("live")) \in 1..tries /\ gets.live.done)
        /\ out.live_html = (IF loc.html_l = NoneBody THEN 0 ELSE loc.html_l)
        /\ out.status_live = (IF loc.code_l = 0 THEN "" ELSE ToString(loc.code_l))
        /\ served.live /= NoResp => loc.code_l = served.live.status
        /\ loc.html_l /= NoneBody => loc.html_l = served.live.text

\* the archive was chosen and the live page was fetched all the same
C3_Witness ==
    /\ Returned
    /\ out.chosen_provenance = "archive"
    /\ calls.live = 1
    /\ served.live /= NoResp
    /\ out.live_html > MIN_GOOD_LEN
    /\ out.status_live = "200"

\* C4: when all 3 attempts of a request fail with a transport exception,
\* fetch_live / fetch_archived return (None, 0) and wayback_lookup returns
\* (None, None); the exception does not leave collect_dual, which goes on to
\* return a result.
C4_RetryExhaustion ==
    /\ Exhausted("lookup") =>
          /\ LookupReturned
          /\ loc.a_url = NoneStr /\ loc.ts = NoneStr
          /\ calls.archive = 0
    /\ Exhausted("archive") =>
          /\ ArchiveReturned
          /\ loc.html_a = NoneBody /\ loc.code_a = 0
    /\ Exhausted("live") =>
          /\ LiveReturned
          /\ loc.html_l = NoneBody /\ loc.code_l = 0
          /\ pc \in {"select", "returned"}
    /\ escaped.cls \notin TransportErrors

\* the lookup and the live fetch both ran out of attempts and a result was
\* returned
C4_Witness ==
    /\ Returned
    /\ Exhausted("lookup")
    /\ Exhausted("live")
    /\ out.chosen_provenance = "none"

Fields ==
    {"archive_html", "status_archive", "archive_url", "snapshot_ts",
     "live_html", "status_live", "chosen_provenance", "reason"}

Reasons ==
    {"archive_ok", "archive_missing_or_small_live_ok", "both_missing_or_small"}

\* the text collect_dual records for the status of an operation: the status
\* code of the response it obtained, empty when it obtained none
StatusText(op) ==
    IF served[op] = NoResp THEN "" ELSE ToString(served[op].status)

WellFormed(o) ==
    /\ DOMAIN o = Fields
    /\ o.archive_html \in Nat /\ o.live_html \in Nat
    /\ o.chosen_provenance \in {"archive", "live", "none"}
    /\ o.reason \in Reasons
    /\ o.archive_url /= NoneStr /\ o.snapshot_ts /= NoneStr

\* collect_dual raised only for something outside the expected failure
\* modes: an error of the HTTP client outside RequestException, or a lookup
\* payload of the wrong shape
RaisedOnlyUnexpected ==
    pc = "raised" =>
        \/ escaped.cls \in OtherErrors
        \/ escaped.cls = "AttributeError" /\ escaped.op = "lookup"

\* C5 as stated: collect_dual never raises for an expected failure mode and
\* returns a well-formed result of eight fields in which every field of a
\* failed or skipped branch is at its empty default.
C5_FailedBranchAllDefault ==
    /\ RaisedOnlyUnexpected
    /\ Returned =>
          /\ WellFormed(out)
          /\ (calls.archive = 0 \/ loc.html_a = NoneBody) =>
                /\ out.archive_html = 0 /\ out.status_archive = ""
                /\ out.archive_url = "" /\ out.snapshot_ts = ""
          /\ loc.html_l = NoneBody =>
                out.live_html = 0 /\ out.status_live = ""

\* C5 (amended): collect_dual never raises for an expected failure mode and
\* returns a well-formed result of eight fields; every field of a skipped
\* branch is at its empty default, and the body of a failed branch is empty,
\* while its status is the status code of the response obtained (empty when
\* none was obtained) and archive_url / snapshot_ts are those of the lookup.
C5_NeverRaisesWellFormed ==
    /\ RaisedOnlyUnexpected
    /\ Returned =>
          /\ WellFormed(out)
          /\ calls.archive = 0 =>
                /\ out.archive_html = 0 /\ out.status_archive = ""
                /\ out.archive_url = "" /\ out.snapshot_ts = ""
          /\ (calls.archive = 1 /\ loc.html_a = NoneBody) =>
                /\ out.archive_html = 0
                /\ out.status_archive = StatusText("archive")
                /\ out.archive_url = loc.a_url
                /\ out.snapshot_ts = (IF loc.ts = NoneStr THEN "" ELSE loc.ts)
          /\ loc.html_l = NoneBody =>
                /\ out.live_html = 0
                /\ out.status_live = StatusText("live")

\* a result after a non-200 lookup: the archive branch skipped, the live
\* branch failed on a 503
C5_Witness ==
    /\ Returned
    /\ served.lookup.status = 404
    /\ calls.archive = 0
    /\ served.live.status = 503
    /\ out.status_live = "503"
    /\ out.live_html = 0

\* C6: whenever wayback_lookup returns (None, None), collect_dual makes no
\* archive fetch, archive_html of the result is empty, and the live body
\* alone decides between 'live' and 'none'.
C6_NoArchiveFound ==
    (LookupReturned /\ loc.a_url = NoneStr /\ loc.ts = NoneStr) =>
        /\ calls.archive = 0
        /\ Len(OpReqs("archive")) = 0
        /\ out.archive_html = 0
        /\ Returned =>
              out.chosen_provenance =
                  (IF len(out.live_html) >= MIN_GOOD_LEN THEN "live" ELSE "none")

\* the lookup answered "not available" and the live page was chosen
C6_Witness ==
    /\ Returned
    /\ served.lookup.status = 200
    /\ served.lookup.json.available = "false"
    /\ loc.a_url = NoneStr
    /\ out.chosen_provenance = "live"

\* C7: fetch_live / fetch_archived of an empty URL return (None, 0) without
\* a network request, and collect_dual of an empty url, for which no
\* snapshot resolves, returns 'none' with reason 'both_missing_or_small'.
C7_BothMissing ==
    /\ \A o \in Outcomes(FetchResponses) :
          LET gr == _get(GetInit, o) IN
          /\ ~archived_requests("")
          /\ fetch_archived("", gr) = FetchRet("None", NoneBody, 0)
    /\ (url = "" /\ pc /= "idle") =>
          /\ reqlog = <<>>
          /\ escaped = NoEscape
          /\ LookupReturned => (loc.a_url = NoneStr /\ calls.archive = 0)
          /\ pc \in {"select", "returned"} =>
                loc.html_l = NoneBody /\ loc.code_l = 0
          /\ Returned =>
                /\ out.chosen_provenance = "none"
                /\ out.reason = "both_missing_or_small"

\* collect_dual of the empty url has returned
C7_Witness ==
    /\ Returned
    /\ url = ""
    /\ calls.live = 1
    /\ out.reason = "both_missing_or_small"

\* the lookup response departs from
\* {"archived_snapshots": {"closest": {"available": .., "url": .., "timestamp": ..}}}
Deviates(r) ==
    \/ r.status /= 200
    \/ r.json.top /= "obj"
    \/ r.json.snaps /= "obj"
    \/ r.json.closest /= "obj"

\* C8: for every lookup response that departs from the expected shape
\* (non-200, invalid JSON, missing archived_snapshots or closest, values
\* that are not objects), wayback_lookup returns (None, None) and raises
\* nothing.
C8_LookupDeviationIsNoSnapshot ==
    (served.lookup /= NoResp /\ Deviates(served.lookup)) =>
        /\ ~(pc = "raised" /\ escaped.op = "lookup")
        /\ LookupReturned
        /\ loc.a_url = NoneStr /\ loc.ts = NoneStr

\* C9: every result carries one of the three reason codes, paired
\* archive/archive_ok, live/archive_missing_or_small_live_ok,
\* none/both_missing_or_small, and the pair is the one the two returned body
\* lengths give, whatever the status codes or errors of the fetches.
C9_ReasonPairedByLengths ==
    Returned =>
        /\ out.reason \in Reasons
        /\ out.chosen_provenance = "archive" <=> out.reason = "archive_ok"
        /\ out.chosen_provenance = "live" <=>
              out.reason = "archive_missing_or_small_live_ok"
        /\ out.chosen_provenance = "none" <=> out.reason = "both_missing_or_small"
        /\ out.reason =
              (CASE out.archive_html >= MIN_GOOD_LEN -> "archive_ok"
                 [] out.archive_html < MIN_GOOD_LEN /\ out.live_html >= MIN_GOOD_LEN
                      -> "archive_missing_or_small_live_ok"
                 [] OTHER -> "both_missing_or_small")

\* a 200 archive response with a short body next to a live fetch that got
\* no response: same outcome as two failed fetches
C9_Witness ==
    /\ Returned
    /\ served.archive.status = 200
    /\ served.archive.text \in 1..MIN_GOOD_LEN
    /\ Exhausted("live")
    /\ out.chosen_provenance = "none"
    /\ out.reason = "both_missing_or_small"

\* C10: _get makes at most 3 attempts per call; an attempt that obtains a
\* response is the last one and its response is returned; when all 3
\* attempts raise a transport exception, the exception of the third attempt
\* leaves _get.
C10_GetAttempts ==
    \A op \in Ops :
        LET rs == OpReqs(op) IN
        /\ Len(rs) <= tries
        /\ \A k \in 1..Len(rs) :
              /\ rs[k].attempt = k - 1
              /\ rs[k].result = "response" =>
                    /\ k = Len(rs)
                    /\ gets[op].done
                    /\ gets[op].raised = NoExc
                    /\ served[op] /= NoResp
        /\ Exhausted(op) =>
              /\ gets[op].done
              /\ gets[op].raised = [cls |-> rs[tries].result, attempt |-> tries - 1]

\* three failed attempts of the live fetch, the first and the last with
\* different exceptions
C10_Witness ==
    /\ Exhausted("live")
    /\ OpReqs("live")[1].result /= OpReqs("live")[3].result
    /\ gets.live.raised.cls = OpReqs("live")[3].result

\* the number of requests of the operation that obtained a response
Responses(op) == Len(SelectSeq(OpReqs(op), LAMBDA r : r.result = "response"))

\* what fetch_archived / fetch_live returned to collect_dual
FetchHtml(op) == IF op = "archive" THEN loc.html_a ELSE loc.html_l
FetchCode(op) == IF op = "archive" THEN loc.code_a ELSE loc.code_l
FetchReturned(op) == IF op = "archive" THEN ArchiveReturned ELSE LiveReturned
OutStatus(op) == IF op = "archive" THEN out.status_archive ELSE out.status_live

\* C11: a response with a status other than 200 is not retried: it is the
\* only response and the last attempt of its operation, fetch_archived /
\* fetch_live return (None, that status), and collect_dual records the
\* status code in status_archive / status_live.
C11_Non200NotRetried ==
    /\ \A op \in Ops :
          (served[op] /= NoResp /\ served[op].status /= 200) =>
              /\ Responses(op) = 1
              /\ OpReqs(op)[Len(OpReqs(op))].result = "response"
              /\ gets[op].done
    /\ \A op \in {"archive", "live"} :
          (served[op] /= NoResp /\ served[op].status /= 200) =>
              /\ FetchReturned(op)
              /\ FetchHtml(op) = NoneBody
              /\ FetchCode(op) = served[op].status
              /\ OutStatus(op) = ToString(served[op].status)

\* the archived page answered 404 and the live page 503, each on the first
\* attempt, and a result was returned
C11_Witness ==
    /\ Returned
    /\ served.archive.status = 404 /\ Len(OpReqs("archive")) = 1
    /\ served.live.status = 503 /\ Len(OpReqs("live")) = 1
    /\ out.status_archive = "404" /\ out.status_live = "503"

\* C12: fetch_archived / fetch_live return (body, status) exactly when a
\* response with status 200 and a body longer than MIN_GOOD_LEN was
\* obtained; otherwise they return (None, status code), 0 without a
\* response; so an outcome has a body of at least MIN_GOOD_LEN characters
\* exactly when it has a body.
C12_FetchSucceedsIffLongBody ==
    \A op \in {"archive", "live"} :
        FetchReturned(op) =>
            /\ FetchHtml(op) /= NoneBody <=>
                  (/\ served[op] /= NoResp
                   /\ served[op].status = 200
                   /\ served[op].text > MIN_GOOD_LEN)
            /\ FetchHtml(op) /= NoneBody =>
                  (FetchHtml(op) = served[op].text /\ FetchCode(op) = 200)
            /\ FetchHtml(op) = NoneBody =>
                  FetchCode(op) = (IF served[op] = NoResp THEN 0 ELSE served[op].status)
            /\ (FetchHtml(op) /= NoneBody /\ len(FetchHtml(op)) >= MIN_GOOD_LEN)
                  <=> FetchHtml(op) /= NoneBody

\* the live page was served with 200 and exactly MIN_GOOD_LEN characters
\* and no body came back, while the archived page, one character longer, did
C12_Witness ==
    /\ LiveReturned
    /\ served.live = Response(200, MIN_GOOD_LEN, NoJson)
    /\ loc.html_l = NoneBody /\ loc.code_l = 200
    /\ served.archive = Response(200, MIN_GOOD_LEN + 1, NoJson)
    /\ loc.html_a = MIN_GOOD_LEN + 1

\* C16: fetch_archived / fetch_live return status 0 only when no attempt
\* obtained a response; when one did, the status returned is that of the
\* response and is not 0.
C16_StatusZeroIffNoResponse ==
    \A op \in {"archive", "live"} :
        FetchReturned(op) =>
            /\ FetchCode(op) = 0 <=> Responses(op) = 0
            /\ Responses(op) > 0 =>
                  (FetchCode(op) = served[op].status /\ FetchCode(op) /= 0)

\* the live fetch obtained a 503 after two failed attempts and returned 503,
\* the archive fetch obtained nothing and returned 0
C16_Witness ==
    /\ LiveReturned
    /\ Len(OpReqs("live")) = tries
    /\ served.live.status = 503 /\ loc.code_l = 503
    /\ Exhausted("archive") /\ loc.code_a = 0

\* position of an operation in the sequence of collect_dual
OpRank(op) == CASE op = "lookup" -> 1 [] op = "archive" -> 2 [] op = "live" -> 3

\* C15: within one collect_dual call the requests are made in the order
\* lookup, archive fetch, live fetch: no archive attempt before the lookup
\* has completed, no live attempt before the archive fetch (when there is
\* one) has returned, and the selection is made only after fetch_live has
\* returned.
C15_StrictSequence ==
    /\ \A j, k \in 1..Len(reqlog) :
          j < k => OpRank(reqlog[j].op) <= OpRank(reqlog[k].op)
    /\ (pc = "archive" \/ Len(OpReqs("archive")) > 0) =>
          (gets.lookup.done /\ LookupReturned)
    /\ (pc = "live" \/ Len(OpReqs("live")) > 0) =>
          /\ LookupReturned
          /\ Len(OpReqs("lookup")) > 0 => gets.lookup.done
          /\ calls.archive = 1 => (ArchiveReturned /\ gets.archive.done)
    /\ (pc \in {"select", "returned"} \/ out.reason /= "") =>
          /\ LiveReturned
          /\ Len(OpReqs("live")) > 0 => gets.live.done

\* a returned call that retried the lookup and the archive fetch before the
\* live fetch
C15_Witness ==
    /\ Returned
    /\ Len(OpReqs("lookup")) = 2
    /\ Len(OpReqs("archive")) = tries
    /\ Len(OpReqs("live")) = 2
    /\ out.chosen_provenance = "archive"

\* the lookup response is a 200 whose payload has a closest entry marked
\* available
LookupAvailable(r) ==
    /\ r.status = 200
    /\ r.json.top = "obj" /\ r.json.snaps = "obj" /\ r.json.closest = "obj"
    /\ r.json.available = "true"

\* C18: wayback_lookup returns the (url, timestamp) of the closest snapshot
\* iff the lookup response is a 200 whose payload has a closest entry marked
\* available; for every other response it returns (None, None).
C18_LookupReturnsClosestIffAvailable ==
    served.lookup /= NoResp =>
        /\ LookupReturned
        /\ IF LookupAvailable(served.lookup)
           THEN /\ loc.a_url = served.lookup.json.url
                /\ loc.ts = served.lookup.json.timestamp
           ELSE loc.a_url = NoneStr /\ loc.ts = NoneStr

\* the number of requests of the operation that ended in a transport failure
TransportFailures(op) ==
    Len(SelectSeq(OpReqs(op), LAMBDA r : r.result \in TransportErrors))

\* C19: _get repeats an attempt only after a transport-level failure; any
\* other outcome of an attempt (a response, or a request error that is not
\* a transport failure, such as a url without a scheme) ends _get at that
\* attempt, without backoff.
C19_OnlyTransportFailuresRetried ==
    \A op \in Ops :
        LET rs == OpReqs(op) IN
        /\ \A k \in 1..Len(rs) :
              rs[k].result \notin TransportErrors =>
                  (k = Len(rs) /\ gets[op].done)
        /\ Len(gets[op].sleeps) = TransportFailures(op)

\* C20: collect_dual raises only when requests.get raises an error of a
\* class the code does not catch; that error leaves _get at the attempt that
\* raised it, with no retry and no backoff, and leaves collect_dual; an error
\* of a caught class never reaches the caller of collect_dual.
C20_RaisesOnlyUncaughtClientError ==
    /\ pc = "raised" =>
          /\ escaped.cls \in OtherErrors
          /\ Len(reqlog) > 0
          /\ reqlog[Len(reqlog)].result = escaped.cls
          /\ reqlog[Len(reqlog)].op = escaped.op
          /\ gets[escaped.op].raised =
                [cls |-> escaped.cls, attempt |-> reqlog[Len(reqlog)].attempt]
          /\ Len(gets[escaped.op].sleeps) = reqlog[Len(reqlog)].attempt
    /\ \A k \in 1..Len(reqlog) :
          reqlog[k].result \in OtherErrors => (k = Len(reqlog) /\ pc = "raised")
    /\ escaped.cls \notin RequestExceptions

\* the headers of every request made so far, in this call and in the
\* earlier ones
AllHeaders == hist.headers \cup {reqlog[k].headers : k \in 1..Len(reqlog)}

\* C13: every request of every collect_dual call, first attempts and
\* retries of the lookup, the archive fetch and the live fetch alike,
\* carries the one fixed User-Agent header, the same in all calls.
C13_FixedUserAgent ==
    /\ \A h \in AllHeaders :
          DOMAIN h = {"UserAgent"} /\ h.UserAgent = USER_AGENT
    /\ Cardinality(AllHeaders) <= 1

\* a later call retrying its live fetch, after calls that made requests
C13_Witness ==
    /\ hist.ncalls = MaxAgain
    /\ hist.headers /= {}
    /\ Len(OpReqs("lookup")) = 1
    /\ Len(OpReqs("live")) = tries
    /\ OpReqs("live")[tries].headers.UserAgent = USER_AGENT

\* C14: with the remote answers fixed, a collect_dual call returns the
\* result an earlier call with the same url returned, whatever calls ran in
\* between.
C14_IdempotentIndependent ==
    (Returned /\ hist.results[url].seen) => out = hist.results[url].out

\* the third call repeats the first one after a call with another url and
\* another result
C14_Witness ==
    /\ Returned
    /\ hist.ncalls = 2
    /\ url = ""
    /\ hist.results[""].seen
    /\ hist.results["https://rep.house.gov"].seen
    /\ hist.results["https://rep.house.gov"].out.chosen_provenance = "archive"
    /\ hist.results["https://rep.house.gov"].out.live_html > 0
    /\ out.chosen_provenance = "none"

----------------------------------------------------------------------------
(* The manifest of fetch_all_sites *)

\* the key columns of a manifest row as they were written
ManifestKey(row) == << row.GovtrackID, row.BioID, row.Year, row.Month >>

\* the key of the panel row for which collect_dual is running
CallingKey == RowKey(sub(batch.p)[batch.i], batch.p)

IsPrefix(a, b) ==
    /\ Len(a) <= Len(b)
    /\ \A k \in 1..Len(a) : a[k] = b[k]

\* at most one row of the manifest carries a key
OneRowPerKey ==
    \A j, k \in 1..Len(batch.manifest) :
        (ManifestKey(batch.manifest[j]) = ManifestKey(batch.manifest[k]))
            => (j = k)

\* collect_dual runs only for a key that no row of the manifest carries
CalledOnlyForNewKey ==
    (batch.phase = "calling")
        => (\A k \in 1..Len(batch.manifest) :
                ManifestKey(batch.manifest[k]) /= CallingKey)

\* C17: after any sequence of runs of fetch_all_sites the manifest holds at
\* most one row per (GovtrackID, BioID, Year, Month); collect_dual is never
\* called for a key that a row of the manifest already carries; and every
\* step leaves the rows already in the manifest in place, adding rows only
\* at its end.
C17_ManifestOneRowPerKey ==
    /\ [](OneRowPerKey /\ CalledOnlyForNewKey)
    /\ [][IsPrefix(batch.manifest, batch.manifest')]_vars

----------------------------------------------------------------------------
(* One lookup per call *)

\* wayback_lookup has ended, by a return or by an exception
LookupEnded == LookupReturned \/ (pc = "raised" /\ escaped.op = "lookup")

\* C21 as stated: every wayback_lookup call, for every url including the
\* empty one, invokes _get once on the lookup endpoint, making between 1 and
\* 3 requests, and every collect_dual call makes exactly one such lookup.
C21_LookupRequestForEveryUrl ==
    /\ pc /= "idle" => calls.lookup = 1
    /\ Len(OpReqs("lookup")) <= tries
    /\ LookupEnded =>
          /\ Len(OpReqs("lookup")) \in 1..tries
          /\ gets.lookup.done

\* C21 (amended): every collect_dual call calls wayback_lookup exactly once;
\* for a non-empty url that call invokes _get once on the lookup endpoint,
\* making between 1 and 3 requests; for the empty url it makes no request
\* and returns (None, None).
C21_LookupOnceNoRequestForEmptyUrl ==
    /\ pc /= "idle" => calls.lookup = 1
    /\ Len(OpReqs("lookup")) <= tries
    /\ (LookupEnded /\ url /= "") =>
          /\ Len(OpReqs("lookup")) \in 1..tries
          /\ gets.lookup.done
    /\ (pc /= "idle" /\ url = "") =>
          /\ Len(OpReqs("lookup")) = 0
          /\ gets.lookup = GetInit
          /\ LookupEnded => (LookupReturned /\ loc.a_url = NoneStr /\ loc.ts = NoneStr)

\* a returned call whose lookup obtained its response on the third attempt
C21_Witness ==
    /\ Returned
    /\ url /= ""
    /\ calls.lookup = 1
    /\ Len(OpReqs("lookup")) = tries
    /\ served.lookup /= NoResp

----------------------------------------------------------------------------
(* The archive fields of a result *)

\* C22: in every result the archive fetch was attempted iff archive_url is
\* non-empty, iff the lookup returned a non-empty snapshot url; archive_url
\* and snapshot_ts are those of the lookup whatever the archive fetch
\* returned; and snapshot_ts is non-empty only if archive_url is.
C22_ArchiveUrlIffFetchAttempted ==
    Returned =>
        /\ calls.archive = 1 <=> out.archive_url /= ""
        /\ Len(OpReqs("archive")) > 0 <=> out.archive_url /= ""
        /\ out.archive_url /= "" <=> TruthyStr(loc.a_url)
        /\ calls.archive = 1 =>
              /\ out.archive_url = loc.a_url
              /\ out.snapshot_ts = (IF loc.ts = NoneStr THEN "" ELSE loc.ts)
        /\ out.snapshot_ts /= "" => out.archive_url /= ""

\* the archive fetch ran out of attempts and the result still names the
\* snapshot the lookup returned
C22_Witness ==
    /\ Returned
    /\ Exhausted("archive")
    /\ out.archive_html = 0
    /\ out.archive_url = ARCHIVE_URL
    /\ out.snapshot_ts = SNAPSHOT_TS

----------------------------------------------------------------------------
(* Termination *)

\* at most one invocation of _get per operation, of at most 3 attempts, and
\* at most 9 requests in a call
AttemptsBounded ==
    /\ \A op \in Ops : calls[op] <= 1 /\ Len(OpReqs(op)) <= 3
    /\ Len(reqlog) <= 9

\* C23 as stated: every collect_dual call, each of its HTTP attempts ending,
\* makes at most 3 invocations of _get of at most 3 attempts each, at most 9
\* requests, and then returns a result.
C23_AlwaysReturnsResult ==
    /\ []AttemptsBounded
    /\ (pc /= "idle") ~> Returned

\* C23 (amended): every collect_dual call, each of its HTTP attempts ending,
\* makes at most 3 invocations of _get of at most 3 attempts each, at most 9
\* requests, and then completes: it returns a result or raises.
C23_CompletesWithin9Attempts ==
    /\ []AttemptsBounded
    /\ (pc /= "idle") ~> (pc \in {"returned", "raised"})

\* a call that returned after 9 requests, 3 for each operation
C23_Witness ==
    /\ Returned
    /\ Len(reqlog) = 9
    /\ \A op \in Ops : Len(OpReqs(op)) = 3

----------------------------------------------------------------------------
(* Backoff *)

\* the number of requests of the operation that failed (requests.get raised
\* a RequestException)
FailedAttempts(op) ==
    Len(SelectSeq(OpReqs(op), LAMBDA r : r.result \in RequestExceptions))

\* the delays of the schedule, in hundredths of a second: 0.75 s, 1.5 s, 3 s
Schedule == << 75, 150, 300 >>

\* C24: the delay after failed attempt i (i = 0, 1, 2) is 0.75 s * 2^i: the
\* successive delays are 1, 2 and 4 times 0.75 s, each twice the one before;
\* there is no delay before the first attempt and none after an attempt that
\* obtained a response.
C24_BackoffSchedule ==
    \A op \in Ops :
        LET sl == gets[op].sleeps IN
        /\ Len(sl) <= 3
        /\ \A k \in 1..Len(sl) :
              /\ sl[k] = Schedule[k]
              /\ sl[k] = backoff * (2 ^ (k - 1))
              /\ k > 1 => sl[k] = 2 * sl[k - 1]
              /\ OpReqs(op)[k].result \in RequestExceptions
        /\ Len(OpReqs(op)) = 0 => sl = << >>
        /\ \A k \in 1..Len(OpReqs(op)) :
              OpReqs(op)[k].result = "response" => Len(sl) = k - 1

\* the lookup slept 0.75 s, 1.5 s and 3 s, and the live fetch, answered on
\* its second attempt, slept 0.75 s only
C24_Witness ==
    /\ Exhausted("lookup")
    /\ gets.lookup.sleeps = << 75, 150, 300 >>
    /\ Len(OpReqs("live")) = 2
    /\ OpReqs("live")[2].result = "response"
    /\ gets.live.sleeps = << 75 >>

\* C27: _get sleeps once per failed attempt, not once per gap between
\* attempts: when all 3 attempts fail it has slept 3 times when the
\* exception reaches its caller, the last time for 0.75 s * 2^2 after the
\* third attempt.
C27_SleepPerFailedAttempt ==
    \A op \in Ops :
        /\ Len(gets[op].sleeps) = FailedAttempts(op)
        /\ FailedAttempts(op) = tries =>
              /\ Len(gets[op].sleeps) = 3
              /\ gets[op].sleeps[3] = backoff * (2 ^ 2)
              /\ gets[op].done
              /\ gets[op].raised.cls \in RequestExceptions
              /\ gets[op].raised.attempt = 2
        /\ gets[op].raised.cls \in RequestExceptions =>
              Len(gets[op].sleeps) = gets[op].raised.attempt + 1

\* the archive fetch failed three times and its exception was raised after
\* the third sleep
C27_Witness ==
    /\ Exhausted("archive")
    /\ gets.archive.raised.cls \in TransportErrors
    /\ Len(gets.archive.sleeps) = 3
    /\ gets.archive.sleeps[3] = 300
    /\ ArchiveReturned

----------------------------------------------------------------------------
(* The timestamp of the lookup *)

IsDigit(c) == \E k \in 1..10 : DigitChars[k] = c
DigitValue(c) == (CHOOSE k \in 1..10 : DigitChars[k] = c) - 1

\* the number a text of digits denotes
RECURSIVE NumberOf(_)
NumberOf(t) ==
    IF Len(t) = 0 THEN 0
    ELSE 10 * NumberOf(SubSeq(t, 1, Len(t) - 1)) + DigitValue(t[Len(t)])

\* C25: for every year and every month in 1..12, the timestamp parameter of
\* every lookup request is a text of 14 digits: the year on 4 digits, the
\* month on 2 digits, 15 for the day and 120000 for the time; it depends on
\* (year, month) only.
C25_TimestampFourteenDigits ==
    \A k \in 1..Len(reqlog) :
        reqlog[k].op = "lookup" =>
            LET t == reqlog[k].timestamp IN
            /\ Len(t) = 14
            /\ \A j \in 1..Len(t) : IsDigit(t[j])
            /\ NumberOf(SubSeq(t, 1, 4)) = date.year
            /\ NumberOf(SubSeq(t, 5, 6)) = date.month
            /\ SubSeq(t, 7, 8) = << "1", "5" >>
            /\ SubSeq(t, 9, 14) = << "1", "2", "0", "0", "0", "0" >>
            /\ t = reqlog[1].timestamp

\* C25 (amended): for every year in 0..9999 and every month in 1..12, the
\* timestamp parameter of every lookup request is a text of 14 digits: the
\* year on 4 digits, the month on 2 digits, 15 for the day and 120000 for
\* the time; it depends on (year, month) only.  For a year outside 0..9999
\* it is not a text of 14 digits: a year above 9999 makes it longer and a
\* negative year puts a sign in front.
C25_TimestampFourteenDigitsUpTo9999 ==
    \A k \in 1..Len(reqlog) :
        reqlog[k].op = "lookup" =>
            LET t == reqlog[k].timestamp IN
            /\ t = reqlog[1].timestamp
            /\ SubSeq(t, Len(t) - 7, Len(t)) =
                  << "1", "5", "1", "2", "0", "0", "0", "0" >>
            /\ date.year \in 0..9999 =>
                  /\ Len(t) = 14
                  /\ \A j \in 1..Len(t) : IsDigit(t[j])
                  /\ NumberOf(SubSeq(t, 1, 4)) = date.year
                  /\ NumberOf(SubSeq(t, 5, 6)) = date.month
            /\ date.year > 9999 => Len(t) > 14
            /\ date.year < 0 => t[1] = "-"

\* the lookup for September of the year 5, retried once
C25_Witness ==
    /\ date = [year |-> 5, month |-> 9]
    /\ Len(OpReqs("lookup")) = 2
    /\ OpReqs("lookup")[2].timestamp =
          << "0", "0", "0", "5", "0", "9", "1", "5", "1", "2", "0", "0", "0", "0" >>

----------------------------------------------------------------------------
(* The bodies and the statuses of a result *)

\* C26: in every result archive_html and live_html are each empty or
\* longer than MIN_GOOD_LEN, never of a length in 1..MIN_GOOD_LEN; so
\* chosen_provenance is 'archive' iff archive_html is non-empty and 'none'
\* iff both bodies are empty.
C26_BodiesEmptyOrLong ==
    Returned =>
        /\ out.archive_html = 0 \/ out.archive_html > MIN_GOOD_LEN
        /\ out.live_html = 0 \/ out.live_html > MIN_GOOD_LEN
        /\ out.archive_html \notin 1..MIN_GOOD_LEN
        /\ out.live_html \notin 1..MIN_GOOD_LEN
        /\ out.chosen_provenance = "archive" <=> out.archive_html /= 0
        /\ out.chosen_provenance = "none" <=>
              (out.archive_html = 0 /\ out.live_html = 0)

\* the archived page came with 200 and MIN_GOOD_LEN - 1 characters, the
\* result has no archive body and the live page was chosen
C26_Witness ==
    /\ Returned
    /\ served.archive = Response(200, MIN_GOOD_LEN - 1, NoJson)
    /\ out.archive_html = 0
    /\ out.live_html > MIN_GOOD_LEN
    /\ out.chosen_provenance = "live"

\* C28: in every result status_archive and status_live are each the empty
\* string or the decimal text of a non-zero status code, never '0': a fetch
\* without a response is recorded as the empty string, so status_archive is
\* empty both when no archive fetch was made and when it was made and
\* obtained no response.
C28_StatusNeverZeroText ==
    Returned =>
        /\ \A op \in {"archive", "live"} :
              /\ OutStatus(op) /= "0"
              /\ OutStatus(op) \in {""} \cup {ToString(s) : s \in StatusCodes}
              /\ OutStatus(op) = "" <=> Responses(op) = 0
              /\ Responses(op) > 0 => OutStatus(op) = ToString(served[op].status)
        /\ calls.archive = 0 => out.status_archive = ""
        /\ (calls.archive = 1 /\ served.archive = NoResp) => out.status_archive = ""

\* the archive fetch was made and obtained no response, the live page
\* answered 404
C28_Witness ==
    /\ Returned
    /\ calls.archive = 1
    /\ Exhausted("archive")
    /\ loc.code_a = 0
    /\ out.status_archive = ""
    /\ out.status_live = "404"

----------------------------------------------------------------------------
(* The manifest rows of the two callers *)

\* every manifest row there is: on disk, or built and not yet written
AllRows == batch.manifest \o batch.manifest_rows \o batch.sites_manifest

\* the branch a path names
PathBranch(path) == path[Len(path)]

\* html_path_chosen is non-empty iff the provenance is 'archive' or 'live',
\* and it is then the path of the file of that branch
ChosenPathByProvenance(row) ==
    /\ row.html_path_chosen /= NoPath <=>
          row.provenance_chosen \in {"archive", "live"}
    /\ row.provenance_chosen = "none" => row.html_path_chosen = NoPath
    /\ row.provenance_chosen = "archive" =>
          /\ row.html_path_chosen = row.html_path_archive
          /\ PathBranch(row.html_path_chosen) = "archive"
    /\ row.provenance_chosen = "live" =>
          /\ row.html_path_chosen = row.html_path_live
          /\ PathBranch(row.html_path_chosen) = "live"

\* a step in which a caller adds a row for the result out: the row carries
\* the provenance and the lengths of the bodies of out, and the file its
\* html_path_chosen names holds, after the step, the non-empty body of that
\* branch
RowAddedForResult ==
    Len(batch'.manifest_rows) = Len(batch.manifest_rows) + 1 =>
        LET row == batch'.manifest_rows[Len(batch'.manifest_rows)] IN
        /\ row.provenance_chosen = out.chosen_provenance
        /\ row.text_len_archive = ToString(out.archive_html)
        /\ row.text_len_live = ToString(out.live_html)
        /\ row.provenance_chosen = "archive" =>
              /\ out.archive_html > 0
              /\ [path |-> row.html_path_chosen, text |-> out.archive_html]
                    \in batch'.files
        /\ row.provenance_chosen = "live" =>
              /\ out.live_html > 0
              /\ [path |-> row.html_path_chosen, text |-> out.live_html]
                    \in batch'.files

\* C29: in every manifest row of fetch_all_sites and of fetch_sites,
\* html_path_chosen is non-empty iff provenance_chosen is 'archive' or
\* 'live' and then names the file of the chosen branch, empty for 'none';
\* the step that adds the row has written the non-empty body of the chosen
\* branch to that file, and text_len_archive / text_len_live are the lengths
\* of the bodies of the result.
C29_ChosenPathNamesWrittenFile ==
    /\ [](\A k \in 1..Len(AllRows) : ChosenPathByProvenance(AllRows[k]))
    /\ [][RowAddedForResult]_vars

\* fetch_sites has added a row whose chosen file is the live one, written
\* with the body of the result, next to an archive body that was dropped
C29_Witness ==
    /\ batch.phase = "sites_loop"
    /\ Len(batch.manifest_rows) > 0
    /\ LET row == batch.manifest_rows[Len(batch.manifest_rows)] IN
       /\ row.provenance_chosen = "live"
       /\ row.html_path_chosen = row.html_path_live
       /\ row.html_path_archive = NoPath
       /\ row.status_archive = "200"
       /\ [path |-> row.html_path_chosen, text |-> out.live_html] \in batch.files
       /\ row.text_len_live = ToString(out.live_html)

----------------------------------------------------------------------------
(* The quality columns *)

\* C30: in every row manifest_quality writes for a manifest row of
\* fetch_all_sites, html_len_chosen is 0 when provenance_chosen is 'none'
\* and greater than MIN_GOOD_LEN otherwise; html_quality_flag is never
\* 'tiny', and it is 'missing' for every row of provenance 'none'.
C30_ChosenLengthZeroOrLong ==
    \A k \in 1..Len(batch.with_quality) :
        LET q == batch.with_quality[k] IN
        /\ q.provenance_chosen = batch.manifest[k].provenance_chosen
        /\ q.provenance_chosen \in {"archive", "live", "none"}
        /\ q.provenance_chosen = "none" =>
              /\ q.html_len_chosen = 0
              /\ q.html_quality_flag = "missing"
        /\ q.provenance_chosen /= "none" => q.html_len_chosen > MIN_GOOD_LEN
        /\ q.html_quality_flag /= "tiny"

\* manifest_quality has written a row of provenance 'none', flagged
\* 'missing', and a row whose chosen live page was classified by its length
C30_Witness ==
    /\ batch.phase = "quality"
    /\ \E k \in 1..Len(batch.with_quality) :
          /\ batch.with_quality[k].provenance_chosen = "none"
          /\ batch.with_quality[k].html_quality_flag = "missing"
    /\ \E k \in 1..Len(batch.with_quality) :
          /\ batch.with_quality[k].provenance_chosen = "live"
          /\ batch.with_quality[k].text_len_archive = "0"
          /\ batch.with_quality[k].html_len_chosen = MIN_GOOD_LEN + 1
          /\ batch.with_quality[k].html_quality_flag = "short"

====
